---------------------------- MODULE Spec2Model ----------------------------
(***************************************************************************)
(* A model of pet_s0sgauto.py: the line-by-line extractor parse_chat, the  *)
(* merger merge_into_pets and the command-line driver main.                *)
(*                                                                         *)
(* Python values are modelled as tagged tuples, so that isinstance() is a  *)
(* test of the tag: a str is <<"str", characters>>, an int <<"int", n>>,   *)
(* a float <<"float", hundredths>>, a dict with field keys <<"obj", f>>,   *)
(* None/null <<"null">>.  A Python string is a tuple of one-character      *)
(* strings, so that str.strip() can be computed.  The Korean literals of   *)
(* the source are written in ASCII: "top" for the grade string of digit 1, *)
(* "high" for that of digit 2, "normal" for the rest; the stat keys atk,   *)
(* def, agi, hp are the source's; the element keys are earth, water, fire, *)
(* wind.                                                                   *)
(***************************************************************************)
EXTENDS Integers, Sequences, FiniteSets, TLC

VARIABLES
  pets,      \* parse_chat: the mapping name -> record under construction;
             \* merge_into_pets, main: the patch, the mapping parse_chat returned
  order,     \* the insertion order of the keys of pets
  current,   \* parse_chat: the record being appended to (by its key), or None
  line,      \* parse_chat: the line the loop body has just handled
  nread,     \* parse_chat: the number of lines consumed so far
  seen,      \* history: the bracketed names of the header lines consumed so far
  again,     \* history: the line just handled is the line handled before it
  file,      \* merge_into_pets: what the text of the base file denotes
  data,      \* merge_into_pets: the dataset returned, None before
  outcome,   \* merge_into_pets: "called", "returned" or the exception raised
  pc,        \* main: the place of control
  env,       \* main: the arguments given and the files there are
  result,    \* main: the value to be written, None before
  outFile,   \* main: what has been written to the --out file, None if nothing
  stdout,    \* main: what has been written to standard output
  status     \* main: the exit status, None while running

parseVars == <<current, line, nread, seen, again>>
mergeVars == <<file, data, outcome>>
mainVars == <<pc, env, result, outFile, stdout, status>>
vars == <<pets, order, parseVars, mergeVars, mainVars>>

-----------------------------------------------------------------------------
(* Bounds of the model *)

\* the longest chat log that is read, in lines
MaxLines == 4

-----------------------------------------------------------------------------
(* Python values *)

None == <<>>
Some(x) == <<x>>

JNull == <<"null">>
JStr(s) == <<"str", s>>
JInt(n) == <<"int", n>>
JFloat(h) == <<"float", h>>
JObj(f) == <<"obj", f>>

IsDict(v) == v[1] = "obj"

\* d.update(e) of two dicts given as functions
Update(d, e) ==
  [k \in DOMAIN d \cup DOMAIN e |-> IF k \in DOMAIN e THEN e[k] ELSE d[k]]

\* d[k] = v
Put(d, k, v) == Update(d, k :> v)

\* str.strip(): leading and trailing whitespace removed
IsSpace(c) == c = " "

RECURSIVE LStrip(_)
LStrip(s) ==
  IF s # <<>> /\ IsSpace(Head(s)) THEN LStrip(Tail(s)) ELSE s

RECURSIVE RStrip(_)
RStrip(s) ==
  IF s # <<>> /\ IsSpace(s[Len(s)]) THEN RStrip(SubSeq(s, 1, Len(s) - 1)) ELSE s

Strip(s) == RStrip(LStrip(s))

\* int() of a text of decimal digits
RECURSIVE IntOf(_)
IntOf(ds) ==
  IF ds = <<>> THEN 0 ELSE 10 * IntOf(SubSeq(ds, 1, Len(ds) - 1)) + ds[Len(ds)]

\* float() of a text \d+(\.\d+)? given as [int |-> digits, frac |-> digits],
\* in hundredths (the model's fractions have at most two digits)
FloatOf(t) ==
  100 * IntOf(t.int)
    + (IF Len(t.frac) = 0 THEN 0
       ELSE IF Len(t.frac) = 1 THEN 10 * t.frac[1]
       ELSE 10 * t.frac[1] + t.frac[2])

-----------------------------------------------------------------------------
(* A line of the chat log, after raw.strip(), is given by the text it holds *)
(* at the places the patterns look at:                                      *)
(*   blank    the line is empty                                             *)
(*   bracket  the text between a leading "[" and the first "]"              *)
(*   gradeTok the character c of a following "[c<grade word>]"              *)
(*   suffix   the fixed header suffix follows                               *)
(*   init     the four number texts of a base-stat phrase                   *)
(*   grow     the number texts of a growth-stat phrase, the aggregate       *)
(*            (total) included                                              *)
(*   skill    the skill word occurs in the line                             *)
(*   attrWord the attribute word occurs in the line                         *)
(*   attrSeg  the text after "<attribute word> :" up to the next comma,     *)
(*            already split on whitespace into tokens [el, val]             *)
(*   route    the text after "<route word> :" up to the end of the line     *)
(* Each is None when the line has no such text.                             *)

Plain ==
  [blank |-> FALSE, bracket |-> None, gradeTok |-> None, suffix |-> FALSE,
   init |-> None, grow |-> None, skill |-> FALSE, attrWord |-> FALSE,
   attrSeg |-> None, route |-> None]

BlankLine == [Plain EXCEPT !.blank = TRUE]

Digits == {"0", "1", "2", "3", "4", "5", "6", "7", "8", "9"}

Elements == {"earth", "water", "fire", "wind"}

\* HEADER_RE.search(line): ^\[(?P<name>[^\]]+)\]\s*(?:\[(?P<grade>\d)..\]\s*)?suffix
\* The result is None or Some([name, grade]); grade is None or Some(digit).
HEADER_RE(l) ==
  IF /\ l.bracket # None
     /\ l.bracket[1] # <<>>
     /\ l.suffix
     /\ (l.gradeTok # None => l.gradeTok[1] \in Digits)
  THEN Some([name |-> l.bracket[1], grade |-> l.gradeTok])
  ELSE None

\* INIT_RE.search(line): every captured number is \d+
INIT_RE(l) ==
  IF /\ l.init # None
     /\ \A k \in {"atk", "def", "agi", "hp"} : l.init[1][k] # <<>>
  THEN l.init
  ELSE None

\* GROW_RE.search(line): every number is \d+(?:\.\d+)?; the aggregate must be
\* there for the pattern to match and is not captured
GROW_RE(l) ==
  IF /\ l.grow # None
     /\ \A k \in {"atk", "def", "agi", "total", "hp"} : l.grow[1][k].int # <<>>
  THEN Some([k \in {"atk", "def", "agi", "hp"} |-> l.grow[1][k]])
  ELSE None

\* ATTR_SEG_RE.search(line): the segment is [^,]+; a segment of whitespace alone
\* has no token
ATTR_SEG_RE(l) ==
  IF l.attrWord /\ l.attrSeg # None THEN l.attrSeg ELSE None

\* ATTR_TOKEN_RE.match(tok): ([<element>])\s*(\d+)
ATTR_TOKEN_RE(tok) ==
  IF tok.el \in Elements /\ tok.val # <<>> THEN Some(tok) ELSE None

\* ROUTE_RE.search(line): the captured text is .+
ROUTE_RE(l) ==
  IF l.route # None /\ l.route[1] # <<>> THEN l.route ELSE None

-----------------------------------------------------------------------------
(* grade_digit_to_str *)

Top == <<"t", "o", "p">>
High == <<"h", "i", "g", "h">>
Normal == <<"n", "o", "r", "m", "a", "l">>

grade_digit_to_str(d) ==
  IF d = Some("1") THEN Top
  ELSE IF d = Some("2") THEN High
  ELSE Normal

-----------------------------------------------------------------------------
(* parse_chat: the body of the loop over the lines *)

StatKeys == {"atk", "def", "agi", "hp"}

\* a variant that keeps the bracketed text untrimmed
HeaderName_Untrimmed(m) == m.name

\* name = m.group("name").strip()
HeaderName(m) == Strip(m.name)

\* a variant that starts a new record at every header
FindOrCreate_Recreate(ps, name) == Put(ps, name, [name |-> JStr(name)])

\* if name not in pets: pets[name] = {"name": name}
FindOrCreate(ps, name) ==
  IF name \notin DOMAIN ps THEN Put(ps, name, [name |-> JStr(name)]) ELSE ps

\* the keys of the dict in insertion order
KeyOrder(ord, ps, name) ==
  IF name \notin DOMAIN ps THEN Append(ord, name) ELSE ord

\* a variant that writes the grade on every header
GradeWritten_Always(g_digit, rec) == TRUE

\* if g_digit is not None or "grade" not in current
GradeWritten(g_digit, rec) == g_digit # None \/ "grade" \notin DOMAIN rec

\* the header branch's update of the current record
HeaderUpdate(rec, g_digit) ==
  IF GradeWritten(g_digit, rec)
  THEN Put(rec, "grade", JStr(grade_digit_to_str(g_digit)))
  ELSE rec

\* a variant that adds the numbers of the line to the numbers held
InitUpdate_Accumulate(rec, g) ==
  LET old == IF "s0" \in DOMAIN rec THEN rec["s0"][2] ELSE [k \in StatKeys |-> JInt(0)]
  IN  Put(rec, "s0", JObj([k \in StatKeys |-> JInt(old[k][2] + IntOf(g[k]))]))

\* s0 = {"atk": int(..), ...}; current.setdefault("s0", {}).update(s0)
InitUpdate(rec, g) ==
  LET s0 == [k \in StatKeys |-> JInt(IntOf(g[k]))]
      old == IF "s0" \in DOMAIN rec THEN rec["s0"][2] ELSE <<>>
  IN  Put(rec, "s0", JObj(Update(old, s0)))

\* a variant that stores an aggregate figure beside the four numbers
GrowUpdate_WithTotal(rec, g) ==
  LET sg == [k \in StatKeys \cup {"total"} |->
               IF k = "total"
               THEN JFloat(FloatOf(g["atk"]) + FloatOf(g["def"]) + FloatOf(g["agi"])
                             + FloatOf(g["hp"]))
               ELSE JFloat(FloatOf(g[k]))]
      old == IF "sg" \in DOMAIN rec THEN rec["sg"][2] ELSE <<>>
  IN  Put(rec, "sg", JObj(Update(old, sg)))

\* sg = {"atk": float(..), ...}; current.setdefault("sg", {}).update(sg)
GrowUpdate(rec, g) ==
  LET sg == [k \in StatKeys |-> JFloat(FloatOf(g[k]))]
      old == IF "sg" \in DOMAIN rec THEN rec["sg"][2] ELSE <<>>
  IN  Put(rec, "sg", JObj(Update(old, sg)))

\* the loop over seg.split(): attr[el] = int(val) for every matching token
RECURSIVE AttrOf(_, _)
AttrOf(attr, toks) ==
  IF toks = <<>> THEN attr
  ELSE LET m_tok == ATTR_TOKEN_RE(Head(toks))
       IN  AttrOf(IF m_tok = None THEN attr
                  ELSE Put(attr, m_tok[1].el, IntOf(m_tok[1].val)),
                  Tail(toks))

\* a variant that writes the attribute block whatever its values
AnyPositive_Always(attr) == TRUE

\* any(v > 0 for v in attr.values())
AnyPositive(attr) == \E el \in DOMAIN attr : attr[el] > 0

\* 4-1: the attribute part of a skill line
AttrUpdate(rec, l) ==
  LET m_attr == ATTR_SEG_RE(l)
      attr == AttrOf([el \in Elements |-> 0], m_attr[1])
  IN  IF m_attr # None /\ AnyPositive(attr)
      THEN Put(rec, "attr", JObj([el \in Elements |-> JInt(attr[el])]))
      ELSE rec

\* 4-2: the route part of a skill line
RouteUpdate(rec, l) ==
  LET m_route == ROUTE_RE(l)
  IN  IF m_route # None THEN Put(rec, "route", JStr(Strip(m_route[1]))) ELSE rec

\* if "<skill word>" in line and "<attribute word>" in line
IsSkillLine(l) == l.skill /\ l.attrWord

-----------------------------------------------------------------------------
(* merge_into_pets.  The dataset json.loads returns is <<"dict", f>> for a  *)
(* JSON object (f maps names to entries), <<"list", s>> for a JSON array,   *)
(* or a scalar.  An entry that is a JSON object is <<"obj", g>> with g      *)
(* mapping field names to values.  Both are Python dicts; the tags differ   *)
(* because the keys are names in the one and field names in the other.      *)
(* The patch is the mapping parse_chat returned: ps with its key order ord. *)

JDict(f) == <<"dict", f>>
JList(q) == <<"list", q>>

RecognizedKeys == <<"grade", "s0", "sg", "attr", "route">>

\* target.get(key)
Get(d, k) == IF k \in DOMAIN d THEN d[k] ELSE JNull

\* a variant that replaces a sub-mapping the target holds instead of updating it
MergeField_Replace(target, extra, key) ==
  IF key \notin DOMAIN extra THEN target ELSE Put(target, key, extra[key])

\* the body of "for key in (...)" for an existing target: lines 172-177, 198-202
MergeField(target, extra, key) ==
  IF key \notin DOMAIN extra THEN target
  ELSE IF IsDict(extra[key]) /\ IsDict(Get(target, key))
       THEN Put(target, key, JObj(Update(target[key][2], extra[key][2])))
       ELSE Put(target, key, extra[key])

\* for key in ("grade", "s0", "sg", "attr", "route")
RECURSIVE MergeFields(_, _, _)
MergeFields(target, extra, keys) ==
  IF keys = <<>> THEN target
  ELSE MergeFields(MergeField(target, extra, Head(keys)), extra, Tail(keys))

\* a variant that always starts from a fresh object
MergeDictEntry_Fresh(d, name, extra) ==
  Put(d, name, JObj(MergeFields(<<>>, extra, RecognizedKeys)))

\* a variant that takes every value that is no mapping for a missing entry
MergeDictEntry_ReplaceAny(d, name, extra) ==
  LET found == Get(d, name)
      target == IF ~IsDict(found) THEN JObj(<<>>) ELSE found
  IN  Put(d, name, JObj(MergeFields(target[2], extra, RecognizedKeys)))

\* one pass of the loop of the dict shape: lines 164-177
MergeDictEntry(d, name, extra) ==
  LET found == Get(d, name)
      target == IF found = JNull THEN JObj(<<>>) ELSE found
      d1 == IF found = JNull THEN Put(d, name, target) ELSE d
  IN  IF ~IsDict(target) THEN d1
      ELSE Put(d1, name, JObj(MergeFields(target[2], extra, RecognizedKeys)))

\* for name, extra in patch.items(), dict shape
RECURSIVE MergeDict(_, _, _)
MergeDict(d, ord, ps) ==
  IF ord = <<>> THEN d
  ELSE MergeDict(MergeDictEntry(d, Head(ord), ps[Head(ord)]), Tail(ord), ps)

\* isinstance(obj, dict) and "name" in obj
Indexed(obj) == IsDict(obj) /\ "name" \in DOMAIN obj[2]

\* a variant that keeps the first object of a name
ByName_First(q) ==
  LET named == {i \in 1..Len(q) : Indexed(q[i])}
  IN  [v \in {q[i][2]["name"] : i \in named} |->
         CHOOSE i \in named :
           /\ q[i][2]["name"] = v
           /\ \A j \in named : q[j][2]["name"] = v => i <= j]

\* by_name, as the place of the object in the list: lines 182-185
ByName(q) ==
  LET named == {i \in 1..Len(q) : Indexed(q[i])}
  IN  [v \in {q[i][2]["name"] : i \in named} |->
         CHOOSE i \in named :
           /\ q[i][2]["name"] = v
           /\ \A j \in named : q[j][2]["name"] = v => j <= i]

\* a variant that takes every object found for an empty one
Truthy_Never(obj) == FALSE

\* bool(obj) of a dict
Truthy(obj) == DOMAIN obj[2] # {}

\* new_obj: lines 190-193
RECURSIVE NewObj(_, _, _)
NewObj(obj, extra, keys) ==
  IF keys = <<>> THEN obj
  ELSE NewObj(IF Head(keys) \in DOMAIN extra
              THEN Put(obj, Head(keys), extra[Head(keys)])
              ELSE obj,
              extra, Tail(keys))

\* a variant that puts a new object at the front of the list
AddNew_Front(q, obj) == <<obj>> \o q

\* data.append(new_obj)
AddNew(q, obj) == Append(q, obj)

\* one pass of the loop of the list shape: lines 188-202
MergeListEntry(q, by_name, name, extra) ==
  LET hit == JStr(name) \in DOMAIN by_name /\ Truthy(q[by_name[JStr(name)]])
  IN  IF ~hit
      THEN AddNew(q, JObj(NewObj([name |-> JStr(name)], extra, RecognizedKeys)))
      ELSE [q EXCEPT ![by_name[JStr(name)]] =
              JObj(MergeFields(@[2], extra, RecognizedKeys))]

\* for name, extra in patch.items(), list shape; by_name is built once
RECURSIVE MergeList(_, _, _, _)
MergeList(q, by_name, ord, ps) ==
  IF ord = <<>> THEN q
  ELSE MergeList(MergeListEntry(q, by_name, Head(ord), ps[Head(ord)]),
                 by_name, Tail(ord), ps)

\* a variant that knows the mapping shape alone
ShapeOf_DictOnly(d) == IF d[1] = "dict" THEN "dict" ELSE "other"

\* isinstance(data, dict), isinstance(data, list), or neither
ShapeOf(d) ==
  IF d[1] = "dict" THEN "dict" ELSE IF d[1] = "list" THEN "list" ELSE "other"

\* merge_into_pets once the file is parsed: the value returned, or ValueError
merge_into_pets(d, ord, ps) ==
  IF ShapeOf(d) = "dict" THEN [raised |-> "none", value |-> JDict(MergeDict(d[2], ord, ps))]
  ELSE IF ShapeOf(d) = "list"
       THEN [raised |-> "none", value |-> JList(MergeList(d[2], ByName(d[2]), ord, ps))]
       ELSE [raised |-> "ValueError", value |-> JNull]

-----------------------------------------------------------------------------
(* The lines the model reads *)

Hdr(n, g) == [Plain EXCEPT !.bracket = Some(n), !.gradeTok = g, !.suffix = TRUE]

Num(i, f) == [int |-> i, frac |-> f]

InitText1 == [atk |-> <<1, 0>>, def |-> <<5>>, agi |-> <<7>>, hp |-> <<2, 0>>]
InitText2 == [atk |-> <<0, 9>>, def |-> <<5>>, agi |-> <<8>>, hp |-> <<2, 0>>]
InitTextBad == [atk |-> <<>>, def |-> <<5>>, agi |-> <<7>>, hp |-> <<2, 0>>]

GrowText(a, t) ==
  [atk |-> a, def |-> Num(<<1>>, <<5>>), agi |-> Num(<<2>>, <<>>),
   total |-> t, hp |-> Num(<<3>>, <<2, 5>>)]

Tok(e, v) == [el |-> e, val |-> v]

Seg1 == <<Tok("fire", <<6>>), Tok("water", <<4>>)>>
Seg2 == <<Tok("earth", <<1, 0>>)>>
SegZero == <<Tok("fire", <<0>>), Tok("x", <<3>>), Tok("wind", <<>>)>>
SegLastWins == <<Tok("fire", <<6>>), Tok("fire", <<0>>)>>

Skill(seg, r) ==
  [Plain EXCEPT !.skill = TRUE, !.attrWord = TRUE, !.attrSeg = seg, !.route = r]

\* the optional grade bracket: absent, or with the digit 1, 2 or 3
GradeToks == {None, Some("1"), Some("2"), Some("3")}

\* headers for the names "a" and "b" with every grade bracket, for " a" (the
\* name "a" once trimmed) and for a bracket holding one blank
HeaderLines ==
  {Hdr(n, g) : n \in {<<"a">>, <<"b">>}, g \in GradeToks}
    \cup {Hdr(<<" ", "a">>, None), Hdr(<<" ", "a">>, Some("1")), Hdr(<<" ">>, None)}
    \cup {\* a header that also holds base-stat, growth-stat, attribute and route text
          [Hdr(<<"b">>, Some("2")) EXCEPT
             !.init = Some(InitText2), !.grow = Some(GrowText(Num(<<4>>, <<>>), Num(<<9>>, <<>>))),
             !.skill = TRUE, !.attrWord = TRUE,
             !.attrSeg = Some(Seg2), !.route = Some(<<"b">>)]}

\* lines with a leading bracket that HEADER_RE does not match: an empty
\* bracket, a grade bracket without a digit
NearHeaderLines ==
  {Hdr(<<>>, None), Hdr(<<"a">>, Some("x"))}

InitLines ==
  {[Plain EXCEPT !.init = Some(InitText1)],
   [Plain EXCEPT !.init = Some(InitText2)],
   \* base-stat text together with growth-stat, attribute and route text
   [Skill(Some(Seg2), Some(<<"b">>)) EXCEPT
      !.init = Some(InitText1), !.grow = Some(GrowText(Num(<<4>>, <<>>), Num(<<9>>, <<>>)))]}

GrowLines ==
  {[Plain EXCEPT !.grow = Some(GrowText(Num(<<1>>, <<2>>), Num(<<9>>, <<5>>)))],
   [Plain EXCEPT !.grow = Some(GrowText(Num(<<1>>, <<2>>), Num(<<8>>, <<>>)))],
   \* growth-stat text together with attribute and route text
   [Skill(Some(Seg1), Some(<<"a">>)) EXCEPT
      !.grow = Some(GrowText(Num(<<4>>, <<0>>), Num(<<9>>, <<5>>)))]}

SkillLines ==
  {Skill(Some(Seg1), Some(<<"a">>)),
   Skill(Some(Seg2), None),
   Skill(Some(SegZero), Some(<<"b">>)),
   Skill(Some(SegLastWins), None),
   Skill(Some(<<>>), None),
   Skill(None, Some(<<"a">>)),
   \* a base-stat phrase with a number missing, and a growth-stat phrase
   \* without the aggregate: neither pattern matches, the skill rule handles
   \* the line
   [Skill(Some(Seg2), None) EXCEPT !.init = Some(InitTextBad)],
   [Skill(None, Some(<<"b">>)) EXCEPT
      !.grow = Some(GrowText(Num(<<4>>, <<>>), Num(<<>>, <<>>)))]}

\* lines no rule handles
OtherLines ==
  {Plain,
   [Plain EXCEPT !.attrWord = TRUE, !.attrSeg = Some(Seg1), !.route = Some(<<"a">>)],
   [Plain EXCEPT !.skill = TRUE, !.route = Some(<<"b">>)]}

Lines ==
  {BlankLine} \cup HeaderLines \cup NearHeaderLines \cup InitLines \cup GrowLines
    \cup SkillLines \cup OtherLines

-----------------------------------------------------------------------------
(* parse_chat as a state machine: one action per branch of the loop body *)

\* the variables of the other functions, while they do not run
ParseIdle ==
  /\ current = None
  /\ line = BlankLine
  /\ nread = 0
  /\ seen = {}
  /\ again = FALSE

MergeIdle ==
  /\ file = JNull
  /\ data = None
  /\ outcome = "idle"

MainIdle ==
  /\ pc = "idle"
  /\ env = <<>>
  /\ result = None
  /\ outFile = None
  /\ stdout = <<>>
  /\ status = None

ParseInit ==
  /\ pets = <<>>
  /\ order = <<>>
  /\ current = None
  /\ line = BlankLine
  /\ nread = 0
  /\ seen = {}
  /\ again = FALSE
  /\ MergeIdle
  /\ MainIdle

Read(l) ==
  /\ nread < MaxLines
  /\ line' = l
  /\ nread' = nread + 1
  /\ seen' = IF ~l.blank /\ HEADER_RE(l) # None
             THEN seen \cup {HEADER_RE(l)[1].name}
             ELSE seen
  /\ again' = (nread > 0 /\ l = line)
  /\ UNCHANGED <<mergeVars, mainVars>>

\* if not line: continue
SkipBlank ==
  \E l \in Lines :
    /\ Read(l)
    /\ l.blank
    /\ UNCHANGED <<pets, order, current>>

\* 1) the header branch
Header ==
  \E l \in Lines :
    /\ Read(l)
    /\ ~l.blank
    /\ HEADER_RE(l) # None
    /\ LET m == HEADER_RE(l)[1]
           name == HeaderName(m)
           ps == FindOrCreate(pets, name)
       IN  /\ pets' = Put(ps, name, HeaderUpdate(ps[name], m.grade))
           /\ order' = KeyOrder(order, pets, name)
           /\ current' = Some(name)

\* if current is None: continue
SkipNoCurrent ==
  \E l \in Lines :
    /\ Read(l)
    /\ ~l.blank
    /\ HEADER_RE(l) = None
    /\ current = None
    /\ UNCHANGED <<pets, order, current>>

\* a variant of the base-stat branch without its continue: the growth-stat
\* rule sees the line as well
InitStat_FallThrough ==
  \E l \in Lines :
    /\ Read(l)
    /\ ~l.blank
    /\ HEADER_RE(l) = None
    /\ current # None
    /\ INIT_RE(l) # None
    /\ LET rec == InitUpdate(pets[current[1]], INIT_RE(l)[1])
       IN  pets' = Put(pets, current[1],
                       IF GROW_RE(l) # None THEN GrowUpdate(rec, GROW_RE(l)[1]) ELSE rec)
    /\ UNCHANGED <<order, current>>

\* 2) the base-stat branch
InitStat ==
  \E l \in Lines :
    /\ Read(l)
    /\ ~l.blank
    /\ HEADER_RE(l) = None
    /\ current # None
    /\ INIT_RE(l) # None
    /\ pets' = Put(pets, current[1], InitUpdate(pets[current[1]], INIT_RE(l)[1]))
    /\ UNCHANGED <<order, current>>

\* 3) the growth-stat branch
GrowStat ==
  \E l \in Lines :
    /\ Read(l)
    /\ ~l.blank
    /\ HEADER_RE(l) = None
    /\ current # None
    /\ INIT_RE(l) = None
    /\ GROW_RE(l) # None
    /\ pets' = Put(pets, current[1], GrowUpdate(pets[current[1]], GROW_RE(l)[1]))
    /\ UNCHANGED <<order, current>>

\* 4) the skill/attribute/route branch
SkillAttrRoute ==
  \E l \in Lines :
    /\ Read(l)
    /\ ~l.blank
    /\ HEADER_RE(l) = None
    /\ current # None
    /\ INIT_RE(l) = None
    /\ GROW_RE(l) = None
    /\ IsSkillLine(l)
    /\ pets' = Put(pets, current[1], RouteUpdate(AttrUpdate(pets[current[1]], l), l))
    /\ UNCHANGED <<order, current>>

\* a line no branch handles
Unmatched ==
  \E l \in Lines :
    /\ Read(l)
    /\ ~l.blank
    /\ HEADER_RE(l) = None
    /\ current # None
    /\ INIT_RE(l) = None
    /\ GROW_RE(l) = None
    /\ ~IsSkillLine(l)
    /\ UNCHANGED <<pets, order, current>>

ParseNext ==
  \/ SkipBlank
  \/ Header
  \/ SkipNoCurrent
  \/ InitStat
  \/ GrowStat
  \/ SkillAttrRoute
  \/ Unmatched

Init == ParseInit

Next == ParseNext

Spec == Init /\ [][Next]_vars

-----------------------------------------------------------------------------
(* Properties of parse_chat.  Every state of Spec is the state of parse_chat *)
(* at the end of some text of at most MaxLines lines, so an invariant of     *)
(* Spec is a property of the returned mapping.                               *)

\* the step has consumed a line
Consumed == nread' = nread + 1

\* line l is a header line for the key k
HeaderFor(l, k) ==
  /\ ~l.blank
  /\ HEADER_RE(l) # None
  /\ Strip(HEADER_RE(l)[1].name) = k

\* the grade digit of header line l: None or Some(digit)
DigitOf(l) == HEADER_RE(l)[1].grade

GradeOf(rec) == rec["grade"][2]

Keys == {<<"a">>, <<"b">>, <<>>}

\* C1: the keys of the mapping are exactly the trimmed names of the header
\* lines read, each key is held once, and the record under a key carries the
\* key as its name
C1_KeysAreHeaderNames ==
  /\ DOMAIN pets = {Strip(n) : n \in seen}
  /\ \A k \in DOMAIN pets : pets[k]["name"] = JStr(k)
  /\ Len(order) = Cardinality(DOMAIN pets)
  /\ {order[i] : i \in 1..Len(order)} = DOMAIN pets

\* headers "a" and " a" have both been read, after a header for "b", and
\* there are two records
C1_Witness ==
  /\ {<<"a">>, <<" ", "a">>, <<"b">>} \subseteq seen
  /\ order = <<<<"b">>, <<"a">>>>
  /\ nread = MaxLines

\* C2: a header without a grade digit leaves a top or high grade of its
\* record as it is, and sets the grade, to normal, only of a record that has
\* none yet
C2_NoDowngrade ==
  [][\A k \in Keys :
       (Consumed /\ HeaderFor(line', k) /\ DigitOf(line') = None) =>
         IF k \in DOMAIN pets /\ "grade" \in DOMAIN pets[k]
         THEN pets'[k]["grade"] = pets[k]["grade"]
         ELSE pets'[k]["grade"] = JStr(Normal)]_vars

\* the line just read is a digit-less header for a record whose grade is top
\* or high
C2_Witness ==
  /\ \E k \in DOMAIN pets :
       /\ HeaderFor(line, k)
       /\ DigitOf(line) = None
       /\ GradeOf(pets[k]) \in {Top, High}

\* C3: a header whose digit is not 1 or 2, or is absent, does not change a
\* grade that is set
C3_OnlyTierDigitOverwrites ==
  [][\A k \in Keys :
       (/\ Consumed
        /\ HeaderFor(line', k)
        /\ DigitOf(line') \notin {Some("1"), Some("2")}
        /\ k \in DOMAIN pets
        /\ "grade" \in DOMAIN pets[k]) =>
         pets'[k]["grade"] = pets[k]["grade"]]_vars

HasAttr(rec) == "attr" \in DOMAIN rec

\* line l comes to the skill/attribute rule
ReachesSkillRule(l) ==
  /\ ~l.blank
  /\ HEADER_RE(l) = None
  /\ INIT_RE(l) = None
  /\ GROW_RE(l) = None
  /\ l.skill /\ l.attrWord

\* the value the attribute segment toks gives element el: that of the last
\* well-formed token for el, 0 when there is none
ElementValue(toks, el) ==
  LET hits == {i \in 1..Len(toks) : toks[i].el = el /\ toks[i].val # <<>>}
  IN  IF hits = {} THEN 0
      ELSE IntOf(toks[CHOOSE i \in hits : \A j \in hits : j <= i].val)

\* line l is handled by the skill/attribute rule and yields a positive
\* element value
YieldsPositive(l) ==
  /\ ReachesSkillRule(l)
  /\ l.attrSeg # None
  /\ \E el \in Elements : ElementValue(l.attrSeg[1], el) > 0

\* an attr field has the four element keys and a positive value
C4_AttrShape ==
  \A k \in DOMAIN pets :
    HasAttr(pets[k]) =>
      /\ IsDict(pets[k]["attr"])
      /\ DOMAIN pets[k]["attr"][2] = Elements
      /\ \E el \in Elements : pets[k]["attr"][2][el][2] > 0

\* a step gives a record an attr field, or changes the one it has, only by a
\* line that yields a positive element value while the record is current, and
\* every such line writes the values it yields
C4_AttrStep ==
  \A k \in DOMAIN pets' :
    LET had == k \in DOMAIN pets /\ HasAttr(pets[k])
        hit == Consumed /\ current = Some(k) /\ YieldsPositive(line')
    IN  /\ HasAttr(pets'[k]) <=> (had \/ hit)
        /\ (had /\ ~hit) => pets'[k]["attr"] = pets[k]["attr"]
        /\ hit => pets'[k]["attr"] =
                    JObj([el \in Elements |-> JInt(ElementValue(line'.attrSeg[1], el))])

\* C4: attr is present exactly for the records that were current when a
\* skill/attribute line yielded a positive element value; it then has the
\* four element keys and a positive value; a line whose values are all zero
\* neither writes, removes nor changes it
C4_AttrIffPositive == []C4_AttrShape /\ [][C4_AttrStep]_vars

\* an all-zero skill/attribute line has just been read for a record that
\* keeps the attr written earlier
C4_Witness ==
  /\ current # None
  /\ HasAttr(pets[current[1]])
  /\ ReachesSkillRule(line)
  /\ line.attrSeg # None
  /\ line.attrSeg[1] # <<>>
  /\ ~YieldsPositive(line)

\* C10: every key of the mapping, and the name of every record, is non-empty
C10_NamesNonEmpty ==
  \A k \in DOMAIN pets : k # <<>> /\ pets[k]["name"][2] # <<>>

-----------------------------------------------------------------------------
(* merge_into_pets as a state machine: the inputs, and one action per way   *)
(* the call ends                                                            *)

\* the longest sequence dataset
MaxList == 3

NameA == <<"a">>
NameB == <<"b">>
NameC == <<"c">>

S0Patch == JObj([k \in StatKeys |-> JInt(7)])
SgPatch == JObj([k \in StatKeys |-> JFloat(150)])
AttrPatch == JObj([el \in Elements |-> JInt(IF el = "fire" THEN 6 ELSE 0)])

\* the fields a record of parse_chat may hold beside name and grade
PatchExtras ==
  {<<>>,
   [s0 |-> S0Patch],
   [sg |-> SgPatch, route |-> JStr(<<"r">>)],
   [s0 |-> S0Patch, attr |-> AttrPatch]}

PatchRecs(n) ==
  {[name |-> JStr(n), grade |-> JStr(IF x = <<>> THEN Normal ELSE Top)] @@ x :
     x \in PatchExtras}

\* the patches: no record, one for "a" or "b", or one for each in either order
Patches ==
  {[ord |-> <<>>, ps |-> <<>>]}
    \cup UNION {{[ord |-> <<n>>, ps |-> n :> r] : r \in PatchRecs(n)} :
                n \in {NameA, NameB}}
    \cup UNION {{[ord |-> o, ps |-> (NameA :> ra) @@ (NameB :> rb)] :
                   ra \in PatchRecs(NameA), rb \in PatchRecs(NameB)} :
                o \in {<<NameA, NameB>>, <<NameB, NameA>>}}

\* the fields of the objects of a dataset: none; a grade and a field of the
\* dataset's own; sub-mappings with keys of their own; values of other types
\* under the recognized keys
Fields0 == <<>>
Fields1 == [grade |-> JStr(High), note |-> JStr(<<"x">>)]
Fields2 ==
  [s0 |-> JObj([atk |-> JInt(1), luck |-> JInt(9)]),
   attr |-> JObj([fire |-> JInt(2), wind |-> JInt(3)]),
   route |-> JStr(<<"q">>), note |-> JStr(<<"y">>)]
Fields3 ==
  [s0 |-> JInt(3), sg |-> JNull, grade |-> JObj([tier |-> JInt(1)]), id |-> JInt(4)]

\* what a keyed-mapping dataset stores under a name
DictEntries ==
  {JObj(Fields0), JObj(Fields1), JObj(Fields2), JObj(Fields3), JNull, JInt(5)}

DictDatasets ==
  {JDict(f) :
     f \in UNION {[ks -> DictEntries] : ks \in SUBSET {NameA, NameB}}}
    \cup {JDict(f @@ (NameC :> JObj(Fields1))) :
            f \in UNION {[ks -> {JObj(Fields2), JNull, JInt(5)}] :
                           ks \in SUBSET {NameA, NameB}}}

Named(n, f) == JObj([name |-> n] @@ f)

\* the elements of a sequence dataset: objects named "a" or "b", an object
\* whose name is a number, an object without a name, a number
ListElems ==
  {Named(JStr(NameA), Fields1), Named(JStr(NameA), Fields2),
   Named(JStr(NameB), Fields3), Named(JStr(NameC), Fields0),
   Named(JInt(1), Fields1), JObj(Fields1), JInt(5)}

ListDatasets ==
  {JList(q) : q \in UNION {[1..n -> ListElems] : n \in 0..MaxList}}

\* JSON texts that denote neither a mapping nor a sequence
ScalarDatasets == {JStr(<<"a">>), JInt(5), <<"bool", TRUE>>, JNull}

\* a text json.loads does not accept
Malformed == <<"malformed">>

BaseFiles == DictDatasets \cup ListDatasets \cup ScalarDatasets \cup {Malformed}

MergeInit ==
  /\ \E pt \in Patches : pets = pt.ps /\ order = pt.ord
  /\ file \in BaseFiles
  /\ data = None
  /\ outcome = "called"
  /\ ParseIdle
  /\ MainIdle

\* data = json.loads(...) raises
LoadFails ==
  /\ outcome = "called"
  /\ file = Malformed
  /\ outcome' = "JSONDecodeError"
  /\ UNCHANGED <<pets, order, parseVars, file, data, mainVars>>

\* if isinstance(data, dict): ... return data
MergeMapping ==
  /\ outcome = "called"
  /\ file # Malformed
  /\ ShapeOf(file) = "dict"
  /\ data' = Some(merge_into_pets(file, order, pets).value)
  /\ outcome' = "returned"
  /\ UNCHANGED <<pets, order, parseVars, file, mainVars>>

\* if isinstance(data, list): ... return data
MergeSequence ==
  /\ outcome = "called"
  /\ file # Malformed
  /\ ShapeOf(file) = "list"
  /\ data' = Some(merge_into_pets(file, order, pets).value)
  /\ outcome' = "returned"
  /\ UNCHANGED <<pets, order, parseVars, file, mainVars>>

\* raise ValueError(...)
InvalidShape ==
  /\ outcome = "called"
  /\ file # Malformed
  /\ ShapeOf(file) = "other"
  /\ outcome' = merge_into_pets(file, order, pets).raised
  /\ UNCHANGED <<pets, order, parseVars, file, data, mainVars>>

MergeNext == LoadFails \/ MergeMapping \/ MergeSequence \/ InvalidShape

SpecMerge == MergeInit /\ [][MergeNext]_vars

-----------------------------------------------------------------------------
(* Properties of merge_into_pets: file is the dataset as loaded, data[1] the *)
(* dataset returned, pets with order the patch                              *)

Recognized == {"grade", "s0", "sg", "attr", "route"}

Returned == outcome = "returned"

\* x is an object whose name field is the string n
IsNamed(x, n) == IsDict(x) /\ "name" \in DOMAIN x[2] /\ x[2]["name"] = JStr(n)

\* the place of the last object named n in the sequence q, 0 if there is none
LastNamed(q, n) ==
  LET at == {i \in 1..Len(q) : IsNamed(q[i], n)}
  IN  IF at = {} THEN 0 ELSE CHOOSE i \in at : \A j \in at : j <= i

\* the entry of the dataset d for the name n, null if there is none
EntryOf(d, n) ==
  IF d[1] = "dict" THEN (IF n \in DOMAIN d[2] THEN d[2][n] ELSE JNull)
  ELSE IF LastNamed(d[2], n) = 0 THEN JNull ELSE d[2][LastNamed(d[2], n)]

\* the fields of an object other than the five recognized ones
Rest(x) == [k \in DOMAIN x[2] \ Recognized |-> x[2][k]]

\* the patch names, in patch order, with no object in the sequence q
RECURSIVE Fresh(_, _)
Fresh(ord, q) ==
  IF ord = <<>> THEN <<>>
  ELSE IF LastNamed(q, Head(ord)) = 0 THEN <<Head(ord)>> \o Fresh(Tail(ord), q)
       ELSE Fresh(Tail(ord), q)

\* C5: the dataset returned has the shape of the dataset loaded; of a
\* sequence, the elements loaded stay at their places, and one object for
\* every patch name without an object follows them, in patch order
C5_ShapeAndOrder ==
  Returned =>
    /\ data[1][1] = file[1]
    /\ file[1] = "list" =>
         LET q0 == file[2]
             q == data[1][2]
             new == Fresh(order, q0)
         IN  /\ Len(q) = Len(q0) + Len(new)
             /\ \A i \in 1..Len(q0) :
                  IF IsDict(q0[i])
                  THEN IsDict(q[i]) /\ Rest(q[i]) = Rest(q0[i])
                  ELSE q[i] = q0[i]
             /\ \A j \in 1..Len(new) : IsNamed(q[Len(q0) + j], new[j])

\* a sequence of two elements or more, to which objects for "b" and "a" have
\* been appended in the order of the patch
C5_Witness ==
  /\ Returned
  /\ file[1] = "list"
  /\ Len(file[2]) >= 2
  /\ order = <<NameB, NameA>>
  /\ Len(data[1][2]) = Len(file[2]) + 2
  /\ IsNamed(data[1][2][Len(file[2]) + 1], NameB)

\* the value the claim gives the field key of an entry that was old, for the
\* patch record extra
Expected(old, extra, key) ==
  LET held == IF IsDict(old) /\ key \in DOMAIN old[2] THEN old[2][key] ELSE JNull
  IN  IF IsDict(extra[key]) /\ IsDict(held)
      THEN JObj([k \in DOMAIN held[2] \cup DOMAIN extra[key][2] |->
                   IF k \in DOMAIN extra[key][2] THEN extra[key][2][k] ELSE held[2][k]])
      ELSE extra[key]

\* the entry for n holds every recognized field of the patch record for n
Holds(n) ==
  \A key \in Recognized \cap DOMAIN pets[n] :
    /\ IsDict(EntryOf(data[1], n))
    /\ key \in DOMAIN EntryOf(data[1], n)[2]
    /\ EntryOf(data[1], n)[2][key] = Expected(EntryOf(file, n), pets[n], key)

\* a keyed-mapping dataset stores under n a value that is neither a mapping
\* nor null
Skipped(n) ==
  /\ file[1] = "dict"
  /\ n \in DOMAIN file[2]
  /\ ~IsDict(file[2][n])
  /\ file[2][n] # JNull

\* C6 as stated: after the merge the entry for every patch name holds every
\* recognized field of the patch, whatever was stored under the name
C6_EveryEntryHolds ==
  Returned => \A n \in DOMAIN pets : Holds(n)

\* C6, amended: the same for every name but those under which a keyed
\* mapping stores a value that is neither a mapping nor null; such a value
\* is left as it is
C6_MappingEntriesHold ==
  Returned =>
    \A n \in DOMAIN pets :
      IF Skipped(n) THEN data[1][2][n] = file[2][n] ELSE Holds(n)

\* a sub-mapping held before has been merged key by key: the patch's key
\* overrides, the dataset's own key stays
C6_Witness ==
  /\ Returned
  /\ \E n \in DOMAIN pets :
       /\ "s0" \in DOMAIN pets[n]
       /\ IsDict(EntryOf(file, n))
       /\ EntryOf(file, n)[2] = Fields2
       /\ EntryOf(data[1], n)[2]["s0"] =
            JObj([atk |-> JInt(7), def |-> JInt(7), agi |-> JInt(7), hp |-> JInt(7),
                  luck |-> JInt(9)])

\* entry y is entry x but for the five recognized fields; an entry that was
\* null may have become an object of recognized fields
Framed(x, y) ==
  IF IsDict(x) THEN IsDict(y) /\ Rest(y) = Rest(x)
  ELSE IF x = JNull THEN IsDict(y) /\ DOMAIN y[2] \subseteq Recognized
  ELSE y = x

\* C7: the merge changes the five recognized fields of the entries named in
\* the patch and creates entries for patch names; every other field, every
\* other entry and every element without a name is as it was
C7_Frame ==
  Returned =>
    /\ file[1] = "dict" =>
         LET d0 == file[2]
             d == data[1][2]
         IN  /\ DOMAIN d0 \subseteq DOMAIN d
             /\ DOMAIN d \subseteq DOMAIN d0 \cup DOMAIN pets
             /\ \A n \in DOMAIN d0 :
                  IF n \in DOMAIN pets THEN Framed(d0[n], d[n]) ELSE d[n] = d0[n]
    /\ file[1] = "list" =>
         LET q0 == file[2]
             q == data[1][2]
         IN  /\ Len(q) >= Len(q0)
             /\ \A i \in 1..Len(q0) :
                  IF \E n \in DOMAIN pets : IsNamed(q0[i], n)
                  THEN IsDict(q[i]) /\ Rest(q[i]) = Rest(q0[i])
                  ELSE q[i] = q0[i]

\* a keyed mapping with an entry the patch has changed, which keeps its own
\* field, and an entry for a name that is not in the patch
C7_Witness ==
  /\ Returned
  /\ file[1] = "dict"
  /\ NameC \in DOMAIN file[2]
  /\ \E n \in DOMAIN pets :
       /\ n \in DOMAIN file[2]
       /\ IsDict(file[2][n])
       /\ "note" \in DOMAIN file[2][n][2]
       /\ data[1][2][n] # file[2][n]

\* the dataset loaded is neither a mapping nor a sequence
Scalar(d) == d[1] \notin {"dict", "list"}

\* C9: the call ends in the invalid-dataset error, with no dataset returned,
\* exactly when the dataset loaded is neither a mapping nor a sequence
C9_InvalidDataset ==
  file # Malformed =>
    /\ outcome = "called" =>
         /\ Scalar(file) => ENABLED InvalidShape /\ ~ENABLED (MergeMapping \/ MergeSequence)
         /\ ~Scalar(file) => ~ENABLED InvalidShape
    /\ outcome = "ValueError" => Scalar(file) /\ data = None
    /\ outcome = "returned" => ~Scalar(file)

\* the error has been raised for the empty patch
C9_Witness ==
  /\ outcome = "ValueError"
  /\ order = <<>>
  /\ file = JNull

-----------------------------------------------------------------------------
(* main *)

\* the code point of a character
CharCode(c) ==
  IF c = " " THEN 32 ELSE IF c = "a" THEN 97 ELSE IF c = "b" THEN 98 ELSE 99

\* s < t for two Python strings
RECURSIVE StrLess(_, _)
StrLess(s, t) ==
  IF t = <<>> THEN FALSE
  ELSE IF s = <<>> THEN TRUE
  ELSE IF CharCode(Head(s)) # CharCode(Head(t)) THEN CharCode(Head(s)) < CharCode(Head(t))
  ELSE StrLess(Tail(s), Tail(t))

\* a variant that sorts the keys in descending order
RECURSIVE Sorted_Descending(_)
Sorted_Descending(ks) ==
  IF ks = {} THEN <<>>
  ELSE LET most == CHOOSE k \in ks : \A j \in ks \ {k} : StrLess(j, k)
       IN  <<most>> \o Sorted_Descending(ks \ {most})

\* sorted(parsed.keys(), key=lambda s: s)
RECURSIVE Sorted(_)
Sorted(ks) ==
  IF ks = {} THEN <<>>
  ELSE LET least == CHOOSE k \in ks : \A j \in ks \ {k} : StrLess(k, j)
       IN  <<least>> \o Sorted(ks \ {least})

\* extracted_list: lines 233-237
ExtractedList(ps) ==
  LET names == Sorted(DOMAIN ps)
  IN  JList([i \in 1..Len(names) |->
               JObj(Put(ps[names[i]], "name", JStr(names[i])))])

\* json.dumps(result, ensure_ascii=False, indent=2): the text for a value
Dumps(v) == <<"json", v>>

\* the datasets a base file of main holds
MainFiles ==
  {Malformed, JNull, JInt(5), JDict(<<>>), JDict(NameA :> JObj(Fields1)),
   JDict(NameB :> JInt(5)), JList(<<>>), JList(<<Named(JStr(NameA), Fields2), JInt(5)>>)}

NameAB == <<"a", "b">>
NameEmpty == <<>>

\* mappings parse_chat returns with three and four keys, one a prefix of
\* another and one empty, in several orders of insertion
SortPatches ==
  {[ord |-> o, ps |-> [n \in {o[i] : i \in 1..Len(o)} |->
                         [name |-> JStr(n), grade |-> JStr(Normal)]]] :
     o \in {<<NameB, NameAB, NameA>>, <<NameAB, NameEmpty, NameA>>,
            <<NameA, NameAB, NameB>>, <<NameB, NameA, NameAB, NameEmpty>>}}

MainInit ==
  /\ pc = "start"
  /\ env \in [chatIsFile : BOOLEAN, merge : BOOLEAN, baseIsFile : BOOLEAN, out : BOOLEAN]
  /\ file \in MainFiles
  /\ pets = <<>>
  /\ order = <<>>
  /\ data = None
  /\ outcome = "idle"
  /\ result = None
  /\ outFile = None
  /\ stdout = <<>>
  /\ status = None
  /\ ParseIdle

\* if not chat_path.is_file(): p.error(...)
ChatMissing ==
  /\ pc = "start"
  /\ ~env.chatIsFile
  /\ pc' = "failed"
  /\ status' = Some(2)
  /\ UNCHANGED <<pets, order, parseVars, mergeVars, env, result, outFile, stdout>>

\* text = chat_path.read_text(...); parsed = parse_chat(text)
ReadAndParse ==
  /\ pc = "start"
  /\ env.chatIsFile
  /\ \E pt \in Patches \cup SortPatches : pets' = pt.ps /\ order' = pt.ord
  /\ pc' = "parsed"
  /\ UNCHANGED <<parseVars, mergeVars, env, result, outFile, stdout, status>>

\* if not base_path.is_file(): p.error(...)
MergeMissing ==
  /\ pc = "parsed"
  /\ env.merge
  /\ ~env.baseIsFile
  /\ pc' = "failed"
  /\ status' = Some(2)
  /\ UNCHANGED <<pets, order, parseVars, mergeVars, env, result, outFile, stdout>>

\* merge_into_pets raises in json.loads
MergeMalformed ==
  /\ pc = "parsed"
  /\ env.merge
  /\ env.baseIsFile
  /\ file = Malformed
  /\ outcome' = "JSONDecodeError"
  /\ pc' = "failed"
  /\ status' = Some(1)
  /\ UNCHANGED <<pets, order, parseVars, file, data, env, result, outFile, stdout>>

\* merge_into_pets raises ValueError
MergeInvalid ==
  /\ pc = "parsed"
  /\ env.merge
  /\ env.baseIsFile
  /\ file # Malformed
  /\ ShapeOf(file) = "other"
  /\ outcome' = merge_into_pets(file, order, pets).raised
  /\ pc' = "failed"
  /\ status' = Some(1)
  /\ UNCHANGED <<pets, order, parseVars, file, data, env, result, outFile, stdout>>

\* result = merge_into_pets(base_path, parsed)
Merged ==
  /\ pc = "parsed"
  /\ env.merge
  /\ env.baseIsFile
  /\ file # Malformed
  /\ ShapeOf(file) # "other"
  /\ data' = Some(merge_into_pets(file, order, pets).value)
  /\ outcome' = "returned"
  /\ result' = data'
  /\ pc' = "ready"
  /\ UNCHANGED <<pets, order, parseVars, file, env, outFile, stdout, status>>

\* else: result = extracted_list
NoMerge ==
  /\ pc = "parsed"
  /\ ~env.merge
  /\ result' = Some(ExtractedList(pets))
  /\ pc' = "ready"
  /\ UNCHANGED <<pets, order, parseVars, mergeVars, env, outFile, stdout, status>>

\* a variant that writes the output on the way out of a failed run as well
WritePlace_Finally(p) == p \in {"ready", "failed"}

\* the place from which the output is written: lines 247-256
WritePlace(p) == p = "ready"

\* if args.out: out_path.write_text(json.dumps(result, ...)); print(...)
WriteOut ==
  /\ WritePlace(pc)
  /\ env.out
  /\ outFile' = Some(Dumps(result))
  /\ stdout' = <<<<"saved">>>>
  /\ pc' = "done"
  /\ status' = Some(0)
  /\ UNCHANGED <<pets, order, parseVars, mergeVars, env, result>>

\* else: json.dump(result, sys.stdout, ...); sys.stdout.write("\n")
WriteStdout ==
  /\ WritePlace(pc)
  /\ ~env.out
  /\ stdout' = <<Dumps(result), <<"newline">>>>
  /\ pc' = "done"
  /\ status' = Some(0)
  /\ UNCHANGED <<pets, order, parseVars, mergeVars, env, result, outFile>>

MainNext ==
  \/ ChatMissing
  \/ ReadAndParse
  \/ MergeMissing
  \/ MergeMalformed
  \/ MergeInvalid
  \/ Merged
  \/ NoMerge
  \/ WriteOut
  \/ WriteStdout

SpecMain == MainInit /\ [][MainNext]_vars

-----------------------------------------------------------------------------
(* Properties of main *)

\* an input with which the run fails: the chat file is missing, or a merge
\* is asked for and the base file is missing, is not JSON, or holds neither a
\* mapping nor a sequence
FailingInput ==
  \/ ~env.chatIsFile
  \/ /\ env.merge
     /\ \/ ~env.baseIsFile
        \/ file = Malformed
        \/ file[1] \notin {"dict", "list"}

NothingWritten == outFile = None /\ stdout = <<>>

\* C8: a run ends done, with its one output written whole, or failed, with
\* nothing written to the --out file or to standard output; with a failing
\* input nothing is ever written; nothing is written before the end
C8_AllOrNothing ==
  /\ FailingInput => NothingWritten /\ pc # "done"
  /\ pc # "done" => NothingWritten
  /\ pc \notin {"done", "failed"} => ENABLED MainNext
  /\ pc = "failed" => FailingInput /\ status \in {Some(1), Some(2)}
  /\ pc = "done" =>
       /\ status = Some(0)
       /\ result # None
       /\ IF env.out
          THEN outFile = Some(Dumps(result)) /\ stdout = <<<<"saved">>>>
          ELSE outFile = None /\ stdout = <<Dumps(result), <<"newline">>>>

\* a run with --out and --merge has failed on a dataset that is neither a
\* mapping nor a sequence
C8_Witness ==
  /\ pc = "failed"
  /\ env.out
  /\ env.merge
  /\ outcome = "ValueError"
  /\ pets # <<>>

\* the run has taken the branch without --merge and holds its result
DefaultOutput == ~env.merge /\ pc \in {"ready", "done"}

\* the name field of the i-th object of the sequence v
NameAt(v, i) == v[2][i][2]["name"][2]

\* C11: without --merge the result is a sequence with one record for every
\* key of the mapping parse_chat returned, each the record of the mapping
\* with the key as its name, in strictly ascending order of name, whatever
\* the order in which the keys were inserted; that sequence is what is written
C11_SortedByName ==
  DefaultOutput =>
    LET v == result[1]
    IN  /\ v[1] = "list"
        /\ Len(v[2]) = Cardinality(DOMAIN pets)
        /\ {NameAt(v, i) : i \in 1..Len(v[2])} = DOMAIN pets
        /\ \A i \in 1..Len(v[2]) :
             v[2][i] = JObj(Put(pets[NameAt(v, i)], "name", JStr(NameAt(v, i))))
        /\ \A i, j \in 1..Len(v[2]) : i < j => StrLess(NameAt(v, i), NameAt(v, j))
        /\ pc = "done" =>
             IF env.out THEN outFile = Some(Dumps(result))
             ELSE stdout[1] = Dumps(result)

\* the keys were inserted in the order "b", "a", "ab", "" and the output has
\* been written in the order "", "a", "ab", "b"
C11_Witness ==
  /\ DefaultOutput
  /\ pc = "done"
  /\ order = <<NameB, NameA, NameAB, NameEmpty>>
  /\ Len(result[1][2]) = 4
  /\ NameAt(result[1], 1) = NameEmpty
  /\ NameAt(result[1], 3) = NameAB

-----------------------------------------------------------------------------
(* Further properties of parse_chat *)

\* line l is handled by the base-stat rule or by the growth-stat rule when
\* there is a current record
StatLine(l) ==
  /\ ~l.blank
  /\ HEADER_RE(l) = None
  /\ INIT_RE(l) # None \/ GROW_RE(l) # None

\* C12: a base-stat or growth-stat line applied to the current record right
\* after the same line has been applied to it changes nothing: the mapping,
\* the order of its keys and the current record are as after the first
C12_StatLineIdempotent ==
  [][(Consumed /\ nread > 0 /\ line' = line /\ current # None /\ StatLine(line')) =>
       pets' = pets /\ order' = order /\ current' = current]_vars

\* a base-stat line has been applied twice in a row to a record that holds
\* its numbers
C12_Witness ==
  /\ again
  /\ current # None
  /\ StatLine(line)
  /\ INIT_RE(line) # None
  /\ pets[current[1]]["s0"][2]["atk"] = JInt(IntOf(INIT_RE(line)[1]["atk"]))

\* line l is handled by the header rule
IsHeader(l) == ~l.blank /\ HEADER_RE(l) # None

\* a header line makes the record of its name the current one; it keeps the
\* records there are, that of its name with the fields it has (the grade
\* apart), the others as they are
C13_HeaderStep ==
  (Consumed /\ IsHeader(line')) =>
    LET name == Strip(HEADER_RE(line')[1].name)
    IN  /\ current' = Some(name)
        /\ \A k \in DOMAIN pets :
             /\ k \in DOMAIN pets'
             /\ IF k = name
                THEN \A f \in DOMAIN pets[k] \ {"grade"} :
                       f \in DOMAIN pets'[k] /\ pets'[k][f] = pets[k][f]
                ELSE pets'[k] = pets[k]

\* a line that is no header leaves the current record the current one,
\* creates no record, and changes no record but the current one, which keeps
\* the fields it has; with no current record it changes nothing
C13_FieldStep ==
  (Consumed /\ ~IsHeader(line')) =>
    /\ current' = current
    /\ order' = order
    /\ DOMAIN pets' = DOMAIN pets
    /\ \A k \in DOMAIN pets :
         IF current = Some(k)
         THEN /\ DOMAIN pets[k] \subseteq DOMAIN pets'[k]
              /\ pets'[k]["name"] = pets[k]["name"]
         ELSE pets'[k] = pets[k]

\* C13: a line that is no header changes at most the record named by the
\* most recent header line before it, and nothing when there has been none;
\* a header for a name that has a record goes back to that record
C13_CurrentRecordOnly == [][C13_HeaderStep /\ C13_FieldStep]_vars

\* after headers for "a", for "b" and for "a" again a base-stat line has been
\* applied: the record of "a", still the first, holds its numbers and the
\* record of "b" holds none
C13_Witness ==
  /\ nread = 4
  /\ order = <<<<"a">>, <<"b">>>>
  /\ current = Some(<<"a">>)
  /\ StatLine(line)
  /\ INIT_RE(line) # None
  /\ "grade" \in DOMAIN pets[<<"a">>]
  /\ "s0" \in DOMAIN pets[<<"a">>]
  /\ DOMAIN pets[<<"b">>] = {"name", "grade"}

\* the record under key k in the mapping ps, the empty record if there is none
RecordOf(ps, k) == IF k \in DOMAIN ps THEN ps[k] ELSE <<>>

\* the record rec without the fields F
Without(rec, F) == [f \in DOMAIN rec \ F |-> rec[f]]

\* the step changes no field of any record but the fields F
OnlyFields(F) ==
  \A k \in DOMAIN pets \cup DOMAIN pets' :
    Without(RecordOf(pets', k), F) = Without(RecordOf(pets, k), F)

\* the rule that handles line l: the first it matches
RuleOf(l) ==
  IF l.blank THEN "none"
  ELSE IF HEADER_RE(l) # None THEN "header"
  ELSE IF INIT_RE(l) # None THEN "init"
  ELSE IF GROW_RE(l) # None THEN "grow"
  ELSE IF l.skill /\ l.attrWord THEN "skill"
  ELSE "none"

\* the fields the rule r may write
FieldsOf(r) ==
  IF r = "header" THEN {"name", "grade"}
  ELSE IF r = "init" THEN {"s0"}
  ELSE IF r = "grow" THEN {"sg"}
  ELSE IF r = "skill" THEN {"attr", "route"}
  ELSE {}

\* C14: a line is handled by the first rule it matches, in the order header,
\* base-stat, growth-stat, skill/attribute/route, and by no later one: the
\* step writes no field but those of that rule, whatever other text the line
\* holds; a line at the skill/attribute rule writes attr and route both
C14_FirstRuleOnly ==
  [][Consumed =>
       /\ OnlyFields(FieldsOf(RuleOf(line')))
       /\ (RuleOf(line') = "skill" /\ current # None) =>
            /\ YieldsPositive(line') => HasAttr(pets'[current[1]])
            /\ ROUTE_RE(line') # None =>
                 /\ "route" \in DOMAIN pets'[current[1]]
                 /\ pets'[current[1]]["route"] = JStr(Strip(ROUTE_RE(line')[1]))]_vars

\* a base-stat line that also holds growth-stat, attribute and route text has
\* been applied to a record that had one of these fields and has it still,
\* and has got no other
C14_Witness ==
  /\ current # None
  /\ RuleOf(line) = "init"
  /\ GROW_RE(line) # None
  /\ line.skill /\ line.attrWord
  /\ ROUTE_RE(line) # None
  /\ DOMAIN pets[current[1]] = {"name", "grade", "s0", "route"}
  /\ pets[current[1]]["route"] # JStr(Strip(ROUTE_RE(line)[1]))

\* s0 and sg of every record, when there, are mappings with the four stat keys
C15_FourKeys ==
  \A k \in DOMAIN pets :
    \A f \in {"s0", "sg"} \cap DOMAIN pets[k] :
      IsDict(pets[k][f]) /\ DOMAIN pets[k][f][2] = StatKeys

\* the aggregate figures a growth-stat line may hold
Aggregates == {Num(<<9>>, <<5>>), Num(<<8>>, <<>>), Num(<<0>>, <<>>), Num(<<1>>, <<2>>)}

\* line l with the aggregate figure t in place of its own
WithAggregate(l, t) == [l EXCEPT !.grow = Some([l.grow[1] EXCEPT !.total = t])]

\* a growth-stat line gives sg of the current record the four numbers it
\* holds beside the aggregate, and the mapping it leaves is the one the line
\* leaves with any other aggregate figure
C15_GrowStep ==
  (Consumed /\ RuleOf(line') = "grow" /\ current # None) =>
    /\ OnlyFields({"sg"})
    /\ pets'[current[1]]["sg"] =
         JObj([k \in StatKeys |-> JFloat(FloatOf(line'.grow[1][k]))])
    /\ \A t \in Aggregates :
         /\ RuleOf(WithAggregate(line', t)) = "grow"
         /\ pets' = Put(pets, current[1],
                        GrowUpdate(pets[current[1]], GROW_RE(WithAggregate(line', t))[1]))

\* C15: s0 and sg, when present, have exactly the four stat keys; the
\* aggregate figure of a growth-stat line is stored under no key, so that
\* lines that differ in it alone leave the same mapping
C15_AggregateDiscarded == []C15_FourKeys /\ [][C15_GrowStep]_vars

\* a growth-stat line has been applied whose aggregate is none of its four
\* numbers, and the text read may hold the same line with another aggregate
C15_Witness ==
  /\ current # None
  /\ RuleOf(line) = "grow"
  /\ \E t \in Aggregates : t # line.grow[1].total /\ WithAggregate(line, t) \in Lines
  /\ \A k \in StatKeys : line.grow[1][k] # line.grow[1].total
  /\ "sg" \in DOMAIN pets[current[1]]
  /\ "s0" \in DOMAIN pets[current[1]]

-----------------------------------------------------------------------------
(* Further properties of merge_into_pets *)

\* C16: of a keyed mapping, the merge creates an entry only for a patch name
\* that is no key of the dataset, and an entry for every such name; the value
\* under a key of the dataset is not replaced by a new object: a value that
\* is no mapping stays as it is, a mapping keeps every field it has
C16_CreatesOnlyForAbsent ==
  (Returned /\ file[1] = "dict") =>
    LET d0 == file[2]
        d == data[1][2]
    IN  /\ DOMAIN d = DOMAIN d0 \cup DOMAIN pets
        /\ \A n \in DOMAIN d0 :
             IF IsDict(d0[n])
             THEN IsDict(d[n]) /\ DOMAIN d0[n][2] \subseteq DOMAIN d[n][2]
             ELSE d[n] = d0[n]

\* the object the merge creates for the patch record extra: its recognized
\* fields and no other
Created(extra) == JObj([k \in DOMAIN extra \cap Recognized |-> extra[k]])

\* C16, amended: the merge creates an entry for a patch name that is no key
\* of the dataset or whose value in the dataset is null, and for no other; a
\* mapping under a key of the dataset keeps every field it has, and any
\* other value that is not null stays as it is
C16_CreatesForAbsentOrNull ==
  (Returned /\ file[1] = "dict") =>
    LET d0 == file[2]
        d == data[1][2]
    IN  /\ DOMAIN d = DOMAIN d0 \cup DOMAIN pets
        /\ \A n \in DOMAIN pets \ DOMAIN d0 : d[n] = Created(pets[n])
        /\ \A n \in DOMAIN d0 :
             IF IsDict(d0[n])
             THEN IsDict(d[n]) /\ DOMAIN d0[n][2] \subseteq DOMAIN d[n][2]
             ELSE IF d0[n] = JNull /\ n \in DOMAIN pets
             THEN d[n] = Created(pets[n])
             ELSE d[n] = d0[n]

\* a keyed mapping has been merged that held null under one patch name, no
\* key for the other, and a mapping and a number under further keys
C16_Witness ==
  /\ Returned
  /\ file[1] = "dict"
  /\ DOMAIN pets = {NameA, NameB}
  /\ \E n \in DOMAIN pets :
       /\ n \in DOMAIN file[2]
       /\ file[2][n] = JNull
       /\ IsDict(data[1][2][n])
       /\ \E m \in DOMAIN pets \ DOMAIN file[2] : IsDict(data[1][2][m])
  /\ NameC \in DOMAIN file[2]
  /\ IsDict(data[1][2][NameC])

\* C17: the merge of the patch into the dataset a merge of the same patch
\* has returned returns that dataset again, of either shape; of a sequence
\* it finds the objects the first merge has appended and appends none
C17_MergeIdempotent ==
  Returned =>
    LET second == merge_into_pets(data[1], order, pets)
    IN  /\ second.raised = "none"
        /\ second.value = data[1]
        /\ file[1] = "list" =>
             /\ Len(second.value[2]) = Len(data[1][2])
             /\ \A n \in DOMAIN pets : LastNamed(data[1][2], n) > 0

\* a sequence has been merged in which the patch has updated the sub-mapping
\* of one object and to which it has appended an object for its other name
C17_Witness ==
  /\ Returned
  /\ file[1] = "list"
  /\ DOMAIN pets = {NameA, NameB}
  /\ Len(data[1][2]) = Len(file[2]) + 1
  /\ \E n \in DOMAIN pets :
       /\ "s0" \in DOMAIN pets[n]
       /\ LastNamed(file[2], n) > 0
       /\ IsDict(Get(file[2][LastNamed(file[2], n)][2], "s0"))
       /\ data[1][2][LastNamed(file[2], n)] # file[2][LastNamed(file[2], n)]

\* the places of the objects named n in the sequence q
PlacesOf(q, n) == {i \in 1..Len(q) : IsNamed(q[i], n)}

\* C18: of a sequence with several objects of one patch name, the merge
\* gives the fields of the patch to the last of them, leaves the ones before
\* it as they are, and appends no object of that name
C18_LastDuplicateOnly ==
  (Returned /\ file[1] = "list") =>
    LET q0 == file[2]
        q == data[1][2]
    IN  \A n \in DOMAIN pets :
          Cardinality(PlacesOf(q0, n)) >= 2 =>
            LET last == LastNamed(q0, n)
            IN  /\ \A i \in PlacesOf(q0, n) \ {last} : q[i] = q0[i]
                /\ \A key \in Recognized \cap DOMAIN pets[n] :
                     /\ key \in DOMAIN q[last][2]
                     /\ q[last][2][key] = Expected(q0[last], pets[n], key)
                /\ Rest(q[last]) = Rest(q0[last])
                /\ \A j \in (Len(q0) + 1)..Len(q) : ~IsNamed(q[j], n)

\* a sequence with two different objects named "a" has been merged with a
\* patch for "a" and "b": the second has changed, the first has not, and an
\* object has been appended
C18_Witness ==
  /\ Returned
  /\ file[1] = "list"
  /\ DOMAIN pets = {NameA, NameB}
  /\ Cardinality(PlacesOf(file[2], NameA)) = 2
  /\ LET first == CHOOSE i \in PlacesOf(file[2], NameA) : i < LastNamed(file[2], NameA)
     IN  /\ file[2][first] # file[2][LastNamed(file[2], NameA)]
         /\ data[1][2][first] = file[2][first]
         /\ "grade" \in DOMAIN file[2][first][2]
         /\ file[2][first][2]["grade"] # pets[NameA]["grade"]
  /\ data[1][2][LastNamed(file[2], NameA)] # file[2][LastNamed(file[2], NameA)]
  /\ Len(data[1][2]) = Len(file[2]) + 1

=============================================================================
